---- MODULE Spec2Model ----
(***************************************************************************)
(* A model of evio's unix reactor (src/evio_unix.go): the server thread,   *)
(* the event loops, the ticker goroutine, the connections each loop owns   *)
(* and the poller each loop drives.  Every handler of the source is one    *)
(* action; the results of system calls and of the application's callbacks  *)
(* are chosen by the environment.                                          *)
(*                                                                         *)
(* Scope: stream listeners (one listener, no UDP packet listener), and an  *)
(* application that configures Opened, Data and Closed; Tick and Detached  *)
(* are configured or not by cfg.  The poller (package internal) is         *)
(* modelled from its contract.                                             *)
(***************************************************************************)
EXTENDS Integers, Sequences, FiniteSets, TLC

\* ------------------------------------------------------------------ bounds
MaxLoops  == 2   \* loops of the server (events.NumLoops)
MaxFd     == 3   \* socket descriptors the process may hold open
MaxOut    == 2   \* length of the payload a callback returns
MaxConns  == 1   \* connections the clients open in Spec
MaxWakes  == 1   \* calls of conn.Wake the application makes in Spec
ConnConns == 2   \* connections the clients open in SpecConn
ConnWakes == 2   \* calls of conn.Wake the application makes in SpecConn
RRConns   == 2   \* connections the clients open in SpecRR
LCConns   == 4   \* connections the clients open in SpecLC
BalConns  == 3   \* connections the clients open in SpecBal
PathConns == 2   \* connections the clients open in SpecPath
PathWakes == 2   \* calls of conn.Wake the application makes in SpecPath

\* ------------------------------------------------------------- vocabulary
Nil == 0                        \* the nil *conn
Fds == 1..MaxFd                 \* descriptors of accepted sockets
LnFd == MaxFd + 1               \* the descriptor of the listener
Max(S) == CHOOSE x \in S : \A y \in S : y <= x
MaxConnIds == Max({MaxConns, ConnConns, RRConns, LCConns, BalConns, PathConns})
ConnIds == 1..MaxConnIds        \* conn objects, in order of allocation
AllLoops == 0..(MaxLoops - 1)

Actions == {"None", "Detach", "Close", "Shutdown"}
Balances == {"Random", "RoundRobin", "LeastConnections"}

\* What a callback may return as its out bytes: nothing, or one payload.
Payload == [i \in 1..MaxOut |-> i]
OutChoices == {<<>>, Payload}

TickNote == [kind |-> "tick", c |-> Nil]         \* time.Duration(0)
ClosingNote == [kind |-> "closing", c |-> Nil]   \* errClosing
WakeNote(c) == [kind |-> "wake", c |-> c]        \* *conn

VARIABLES
    cfg,         \* the Events the application passed, and what its callbacks return
    spc,         \* where the server thread stands in serve's deferred function
    sidx,        \* the loop the shutdown sweep has come to
    accepted,    \* server.accepted
    lpc,         \* where each loop's thread stands
    notes,       \* each poller's note queue
    bNotes,      \* the notes the current Wait has dequeued and not yet dispatched
    bFds,        \* the ready descriptors the current Wait has yet to dispatch
    fdconns,     \* loop.fdconns
    count,       \* loop.count
    reg,         \* the events each poller has registered for each descriptor
    pollClosed,  \* whether poll.Close() has run
    tpc,         \* where the ticker goroutine stands
    tickErr,     \* loopNote's err while loop 0 is sending on s.tch
    conn,        \* the conn objects
    nconn,       \* how many conn objects have been allocated
    fdOpen,      \* descriptors that are open in the process
    detOpen,     \* detached conns whose descriptor the application still holds
    pending,     \* connections waiting in the listener's accept queue
    budget,      \* what the environment may still do: [conns, wakes]
    nOpened,     \* history: how often Opened fired for each conn
    nClosed,     \* history: how often Closed fired for each conn
    nDetached,   \* history: how often Detached fired for each conn
    nAccepts,    \* history: how many connections each loop accepted
    nWake,       \* history: how often Wake posted a note for each conn
    nWakeData,   \* history: how often Data(conn, nil) fired for each conn
    bWakeData,   \* history: Data(conn, nil) calls within the loop's current Wait
    early,       \* history: conns that got Data before Opened
    late,        \* history: conns that got Data after Closed or Detached
    staleDrop,   \* history: conns whose stale wake was dropped under a reused fd
    last         \* history: the last branch of loopRun's switch (or loopWake) taken

vars == <<cfg, spc, sidx, accepted, lpc, notes, bNotes, bFds, fdconns, count,
          reg, pollClosed, tpc, tickErr, conn, nconn, fdOpen, detOpen, pending,
          budget, nOpened, nClosed, nDetached, nAccepts, nWake, nWakeData,
          bWakeData, early, late, staleDrop, last>>

histVars == <<nOpened, nClosed, nDetached, nAccepts, nWake, nWakeData,
              bWakeData, early, late, staleDrop, last>>

Loops == 0..(cfg.numLoops - 1)

\* What Closed, Detached and Tick return, as far as the loop tells it apart:
\* Shutdown or anything else.
CbResults == {"None", "Shutdown"} \cap cfg.actions

\* The conn objects a loop's fdconns holds.
Stored(l) == {fdconns[l][fd] : fd \in Fds} \ {Nil}
IsStored(c) == c \in Stored(conn[c].loop)

NewConn(fd, l) ==
    [fd |-> fd, loop |-> l, opened |-> FALSE, out |-> <<>>, action |-> "None"]

\* No branch taken yet.
NoLast == [c |-> Nil, path |-> "none", ret |-> <<>>, prev |-> <<>>,
           act |-> "None", opened |-> FALSE]

\* loopRun's switch took branch path for conn c, whose out was conn[c].out,
\* whose action was conn[c].action and whose opened was conn[c].opened, and
\* the callback it called, if any, returned the bytes ret.  Kept only when
\* cfg.hist asks for it.
SetLast(c, path, ret) ==
    last' = IF cfg.hist
               THEN [c |-> c, path |-> path, ret |-> ret, prev |-> conn[c].out,
                     act |-> conn[c].action, opened |-> conn[c].opened]
               ELSE last

\* ------------------------------------------------------------------- Init
\* The state when serve has started the loops: n loops balanced by b, Tick
\* and Detached configured or not, callbacks that return out bytes among
\* outs and actions among acts, and clients and an application that will
\* make conns connections and wakes calls of Wake; hist keeps the history of
\* the branches taken.
InitCfg(n, b, tick, det, outs, acts, conns, wakes, hist) ==
    /\ cfg = [numLoops |-> n, balance |-> b, tick |-> tick, detached |-> det,
              outs |-> outs, actions |-> acts, hist |-> hist]
    /\ spc = "serving"
    /\ sidx = 0
    /\ accepted = 0
    /\ lpc = [l \in AllLoops |-> IF l < n THEN "wait" ELSE "none"]
    /\ notes = [l \in AllLoops |-> <<>>]
    /\ bNotes = [l \in AllLoops |-> <<>>]
    /\ bFds = [l \in AllLoops |-> {}]
    /\ fdconns = [l \in AllLoops |-> [fd \in Fds |-> Nil]]
    /\ count = [l \in AllLoops |-> 0]
    /\ reg = [l \in AllLoops |-> [fd \in Fds |-> "none"]]
    /\ pollClosed = [l \in AllLoops |-> FALSE]
    /\ tpc = IF tick THEN "trigger" ELSE "off"
    /\ tickErr = FALSE
    /\ conn = [c \in ConnIds |-> NewConn(Nil, 0)]
    /\ nconn = 0
    /\ fdOpen = {}
    /\ detOpen = {}
    /\ pending = 0
    /\ budget = [conns |-> conns, wakes |-> wakes]
    /\ nOpened = [c \in ConnIds |-> 0]
    /\ nClosed = [c \in ConnIds |-> 0]
    /\ nDetached = [c \in ConnIds |-> 0]
    /\ nAccepts = [l \in AllLoops |-> 0]
    /\ nWake = [c \in ConnIds |-> 0]
    /\ nWakeData = [c \in ConnIds |-> 0]
    /\ bWakeData = [c \in ConnIds |-> 0]
    /\ early = {}
    /\ late = {}
    /\ staleDrop = {}
    /\ last = NoLast

InitWith(n, b, tick, det, outs, acts, conns, wakes) ==
    InitCfg(n, b, tick, det, outs, acts, conns, wakes, FALSE)

Init == InitWith(MaxLoops, "Random", TRUE, TRUE, OutChoices, Actions,
                 MaxConns, MaxWakes)

\* ------------------------------------------------------------ environment
\* A client connects: the connection waits in the listener's accept queue.
ClientConnect ==
    /\ budget.conns > 0
    /\ budget' = [budget EXCEPT !.conns = @ - 1]
    /\ pending' = pending + 1
    /\ UNCHANGED <<cfg, spc, sidx, accepted, lpc, notes, bNotes, bFds, fdconns,
                   count, reg, pollClosed, tpc, tickErr, conn, nconn, fdOpen,
                   detOpen, histVars>>

\* poll.Trigger(note): the note joins the queue; no note is lost.
Trigger(l, note) == [notes EXCEPT ![l] = Append(@, note)]

\* conn.Wake(), from any thread that holds the conn (a callback handed it
\* out), whether or not the conn is still stored.
Wake(c) ==
    /\ budget.wakes > 0
    /\ nOpened[c] + nClosed[c] + nDetached[c] > 0
    /\ budget' = [budget EXCEPT !.wakes = @ - 1]
    /\ notes' = Trigger(conn[c].loop, WakeNote(c))
    /\ nWake' = [nWake EXCEPT ![c] = @ + 1]
    /\ UNCHANGED <<cfg, spc, sidx, accepted, lpc, bNotes, bFds, fdconns, count,
                   reg, pollClosed, tpc, tickErr, conn, nconn, fdOpen, detOpen,
                   pending, nOpened, nClosed, nDetached, nAccepts, nWakeData,
                   bWakeData, early, late, staleDrop, last>>

\* detachedConn.Close(): the application closes a descriptor it was handed.
DetachedClose(c) ==
    /\ c \in detOpen
    /\ detOpen' = detOpen \ {c}
    /\ fdOpen' = fdOpen \ {conn[c].fd}
    /\ UNCHANGED <<cfg, spc, sidx, accepted, lpc, notes, bNotes, bFds, fdconns,
                   count, reg, pollClosed, tpc, tickErr, conn, nconn, pending,
                   budget, histVars>>

\* ------------------------------------------------------------- the server
\* sync.Cond: Signal wakes a goroutine that is waiting now and is otherwise
\* lost; the server is the only goroutine that ever waits.
signalShutdown(pc) == IF pc = "waiting" THEN "woken" ELSE pc

\* waitForShutdown, up to cond.Wait(): the server starts waiting.
ServerWait ==
    /\ spc = "serving"
    /\ spc' = "waiting"
    /\ UNCHANGED <<cfg, sidx, accepted, lpc, notes, bNotes, bFds, fdconns, count,
                   reg, pollClosed, tpc, tickErr, conn, nconn, fdOpen, detOpen,
                   pending, budget, histVars>>

\* cond.Wait() has returned: post the closing sentinel to every loop.
ServerTrigger ==
    /\ spc = "woken"
    /\ spc' = "wgwait"
    /\ notes' = [l \in AllLoops |->
                    IF l \in Loops THEN Append(notes[l], ClosingNote) ELSE notes[l]]
    /\ UNCHANGED <<cfg, sidx, accepted, lpc, bNotes, bFds, fdconns, count, reg,
                   pollClosed, tpc, tickErr, conn, nconn, fdOpen, detOpen,
                   pending, budget, histVars>>

\* A server that goes on to the sweep without s.wg.Wait().
ServerNoWgWait ==
    /\ spc = "wgwait"
    /\ spc' = "sweep"
    /\ UNCHANGED <<cfg, sidx, accepted, lpc, notes, bNotes, bFds, fdconns, count,
                   reg, pollClosed, tpc, tickErr, conn, nconn, fdOpen, detOpen,
                   pending, budget, histVars>>

\* s.wg.Wait(): every loop has called wg.Done().
ServerWgWait ==
    /\ spc = "wgwait"
    /\ \A l \in Loops : lpc[l] = "done"
    /\ spc' = "sweep"
    /\ UNCHANGED <<cfg, sidx, accepted, lpc, notes, bNotes, bFds, fdconns, count,
                   reg, pollClosed, tpc, tickErr, conn, nconn, fdOpen, detOpen,
                   pending, budget, histVars>>

\* A sweep that passes over the conns that were never opened.
SweepOpenedConns(l) == {c \in Stored(l) : conn[c].opened}

\* The conns the sweep's range over l.fdconns visits.
SweepConns(l) == Stored(l)

\* One round of the sweep: loopCloseConn on every conn loop sidx still holds
\* (whatever Closed returns is dropped), then poll.Close().
ServerSweep ==
    /\ spc = "sweep"
    /\ LET l == sidx
           cs == SweepConns(l)
           fds == {conn[c].fd : c \in cs}
       IN /\ count' = [count EXCEPT ![l] = @ - Cardinality(cs)]
          /\ fdconns' = [fdconns EXCEPT ![l] =
                            [fd \in Fds |-> IF fd \in fds THEN Nil ELSE @[fd]]]
          /\ fdOpen' = fdOpen \ fds
          /\ reg' = [reg EXCEPT ![l] =
                        [fd \in Fds |-> IF fd \in fds THEN "none" ELSE @[fd]]]
          /\ nClosed' = [c \in ConnIds |->
                            IF c \in cs THEN nClosed[c] + 1 ELSE nClosed[c]]
          /\ pollClosed' = [pollClosed EXCEPT ![l] = TRUE]
          /\ sidx' = sidx + 1
          /\ spc' = IF sidx + 1 = cfg.numLoops THEN "done" ELSE "sweep"
    /\ UNCHANGED <<cfg, accepted, lpc, notes, bNotes, bFds, tpc, tickErr, conn,
                   nconn, detOpen, pending, budget, nOpened, nDetached, nAccepts,
                   nWake, nWakeData, bWakeData, early, late, staleDrop, last>>

\* ------------------------------------------------------------- the ticker
\* A ticker that posts its next note without receiving from s.tch.
TickerNoRecv ==
    /\ tpc = "trigger"
    /\ IF pollClosed[0]
          THEN /\ tpc' = "done"
               /\ UNCHANGED notes
          ELSE /\ tpc' = "trigger"
               /\ notes' = Trigger(0, TickNote)
    /\ UNCHANGED <<cfg, spc, sidx, accepted, lpc, bNotes, bFds, fdconns, count,
                   reg, pollClosed, tickErr, conn, nconn, fdOpen, detOpen,
                   pending, budget, histVars>>

\* loopTicker: Trigger on loop 0's poller; it fails once the poller is
\* closed, and the ticker ends.  Otherwise the ticker goes on to receive
\* from s.tch.
TickerTrigger ==
    /\ tpc = "trigger"
    /\ IF pollClosed[0]
          THEN /\ tpc' = "done"
               /\ UNCHANGED notes
          ELSE /\ tpc' = "recv"
               /\ notes' = Trigger(0, TickNote)
    /\ UNCHANGED <<cfg, spc, sidx, accepted, lpc, bNotes, bFds, fdconns, count,
                   reg, pollClosed, tickErr, conn, nconn, fdOpen, detOpen,
                   pending, budget, histVars>>

\* ---------------------------------------------------------------- a loop
\* What a handler leaves behind: on an error Wait unwinds and the loop goes
\* to its deferred function, dropping what Wait had still to dispatch;
\* otherwise Wait goes on with the rest, and waits again when none is left.
Finish(l, err, bn, bf) ==
    /\ lpc' = [lpc EXCEPT ![l] = IF err THEN "exiting"
                                 ELSE IF bn = <<>> /\ bf = {} THEN "wait"
                                 ELSE "iter"]
    /\ bNotes' = [bNotes EXCEPT ![l] = IF err THEN <<>> ELSE bn]
    /\ bFds' = [bFds EXCEPT ![l] = IF err THEN {} ELSE bf]

\* poll.Wait's blocking call returns: the queued notes, every descriptor
\* registered for write readiness, the descriptors the peers made readable,
\* and the listener while a connection is pending (level-triggered).
LoopWait(l) ==
    /\ lpc[l] = "wait"
    /\ \E rd \in SUBSET {fd \in Fds : reg[l][fd] = "r"} :
         LET fds == rd \cup {fd \in Fds : reg[l][fd] = "rw"}
                       \cup (IF pending > 0 THEN {LnFd} ELSE {})
         IN /\ notes[l] # <<>> \/ fds # {}
            /\ bNotes' = [bNotes EXCEPT ![l] = notes[l]]
            /\ bFds' = [bFds EXCEPT ![l] = fds]
    /\ notes' = [notes EXCEPT ![l] = <<>>]
    /\ lpc' = [lpc EXCEPT ![l] = "iter"]
    /\ bWakeData' = [c \in ConnIds |->
                        IF conn[c].loop = l THEN 0 ELSE bWakeData[c]]
    /\ UNCHANGED <<cfg, spc, sidx, accepted, fdconns, count, reg, pollClosed,
                   tpc, tickErr, conn, nconn, fdOpen, detOpen, pending, budget,
                   nOpened, nClosed, nDetached, nAccepts, nWake, nWakeData,
                   early, late, staleDrop, last>>

\* loopRun's deferred function: signalShutdown, then wg.Done.
LoopExit(l) ==
    /\ lpc[l] = "exiting"
    /\ lpc' = [lpc EXCEPT ![l] = "done"]
    /\ spc' = signalShutdown(spc)
    /\ UNCHANGED <<cfg, sidx, accepted, notes, bNotes, bFds, fdconns, count, reg,
                   pollClosed, tpc, tickErr, conn, nconn, fdOpen, detOpen,
                   pending, budget, histVars>>

\* loopNote, a time.Duration: Tick runs and the loop goes to send the delay.
LoopNoteTick(l) ==
    /\ lpc[l] = "iter"
    /\ bNotes[l] # <<>>
    /\ Head(bNotes[l]).kind = "tick"
    /\ \E action \in CbResults : tickErr' = (action = "Shutdown")
    /\ lpc' = [lpc EXCEPT ![l] = "tchsend"]
    /\ bNotes' = [bNotes EXCEPT ![l] = Tail(@)]
    /\ UNCHANGED <<cfg, spc, sidx, accepted, notes, bFds, fdconns, count, reg,
                   pollClosed, tpc, conn, nconn, fdOpen, detOpen, pending,
                   budget, histVars>>

\* s.tch <- delay meets the ticker's <-s.tch; loopNote returns err.
TchSend(l) ==
    /\ lpc[l] = "tchsend"
    /\ tpc = "recv"
    /\ tpc' = "trigger"
    /\ tickErr' = FALSE
    /\ Finish(l, tickErr, bNotes[l], bFds[l])
    /\ UNCHANGED <<cfg, spc, sidx, accepted, notes, fdconns, count, reg,
                   pollClosed, conn, nconn, fdOpen, detOpen, pending, budget,
                   histVars>>

\* loopNote, an error: the closing sentinel ends the loop.
LoopNoteClosing(l) ==
    /\ lpc[l] = "iter"
    /\ bNotes[l] # <<>>
    /\ Head(bNotes[l]).kind = "closing"
    /\ Finish(l, TRUE, Tail(bNotes[l]), bFds[l])
    /\ UNCHANGED <<cfg, spc, sidx, accepted, notes, fdconns, count, reg,
                   pollClosed, tpc, tickErr, conn, nconn, fdOpen, detOpen,
                   pending, budget, histVars>>

\* ------------------------------------------------- a loop: its connections
\* l.fdconns[fd]; the listener's descriptor is never a key.
ConnAt(l, fd) == IF fd \in Fds THEN fdconns[l][fd] ELSE Nil

\* loopRun's callback reaches the switch with c = l.fdconns[fd]; Wait hands
\* over the ready descriptors once it has handed over the notes.
Dispatch(l, fd, c) ==
    /\ lpc[l] = "iter"
    /\ bNotes[l] = <<>>
    /\ fd \in bFds[l]
    /\ c = ConnAt(l, fd)

\* A switch that looks at the action before it looks at out.
BranchActionFirst(c) ==
    IF ~conn[c].opened THEN "opened"
    ELSE IF conn[c].action # "None" THEN "action"
    ELSE IF Len(conn[c].out) > 0 THEN "write"
    ELSE "read"

\* loopRun's switch on a stored conn: the first case that matches.
Branch(c) ==
    IF ~conn[c].opened THEN "opened"
    ELSE IF Len(conn[c].out) > 0 THEN "write"
    ELSE IF conn[c].action # "None" THEN "action"
    ELSE "read"

\* if len(c.out) == 0 && c.action == None { l.poll.ModRead(c.fd) }
RestoreRead(l, fd, out, action) ==
    IF Len(out) = 0 /\ action = "None" THEN [reg EXCEPT ![l][fd] = "r"] ELSE reg

\* if len(c.out) != 0 || c.action != None { l.poll.ModReadWrite(c.fd) }
RestoreReadWrite(l, fd, out, action) ==
    IF Len(out) # 0 \/ action # "None" THEN [reg EXCEPT ![l][fd] = "rw"] ELSE reg

\* History of a Data call for c.
DataHist(c) ==
    /\ early' = IF nOpened[c] = 0 THEN early \cup {c} ELSE early
    /\ late' = IF nClosed[c] + nDetached[c] > 0 THEN late \cup {c} ELSE late

\* A comparison that also refuses on a tie.
LeastConnRefuseTie(l) == \E lp \in Loops : lp # l /\ count[lp] <= count[l]

\* A comparison turned round: refuse when another loop has more.
LeastConnRefuseLarger(l) == \E lp \in Loops : lp # l /\ count[lp] > count[l]

\* LeastConnections: some other loop reports a strictly smaller count.
LeastConnRefuse(l) == \E lp \in Loops : lp # l /\ count[lp] < count[l]

\* RoundRobin: idx := accepted % len(s.loops); idx == l.idx
RoundRobinTurn(l) == accepted % cfg.numLoops = l

\* What syscall.Accept may return: EAGAIN on an empty queue; with a
\* connection pending, a new descriptor if the process can hold one more,
\* or an error (EMFILE and the like), which leaves the connection pending.
AcceptResults ==
    IF pending = 0 THEN {"eagain"}
    ELSE IF Fds \ fdOpen # {} THEN {"ok", "err"} ELSE {"err"}

\* The lowest free descriptor, as the kernel hands it out.
LowestFree == CHOOSE fd \in Fds \ fdOpen : \A g \in Fds \ fdOpen : fd <= g

\* loopAccept
LoopAccept(l, fd) ==
    /\ Dispatch(l, fd, Nil)
    /\ LET bf == bFds[l] \ {fd}
           rr == cfg.numLoops > 1 /\ cfg.balance = "RoundRobin"
           lc == cfg.numLoops > 1 /\ cfg.balance = "LeastConnections"
           refuse == \/ fd # LnFd
                     \/ lc /\ LeastConnRefuse(l)
                     \/ rr /\ ~RoundRobinTurn(l)
       IN IF refuse
             THEN /\ Finish(l, FALSE, bNotes[l], bf)
                  /\ UNCHANGED <<accepted, conn, nconn, fdconns, reg, count,
                                 pending, fdOpen, nAccepts>>
             ELSE /\ accepted' = IF rr THEN accepted + 1 ELSE accepted
                  /\ \E res \in AcceptResults :
                       IF res = "ok"
                          THEN LET nfd == LowestFree
                                   c == nconn + 1
                               IN /\ conn' = [conn EXCEPT ![c] = NewConn(nfd, l)]
                                  /\ nconn' = c
                                  /\ fdconns' = [fdconns EXCEPT ![l][nfd] = c]
                                  /\ reg' = [reg EXCEPT ![l][nfd] = "rw"]
                                  /\ count' = [count EXCEPT ![l] = @ + 1]
                                  /\ pending' = pending - 1
                                  /\ fdOpen' = fdOpen \cup {nfd}
                                  /\ nAccepts' = [nAccepts EXCEPT ![l] = @ + 1]
                                  /\ Finish(l, FALSE, bNotes[l], bf)
                          ELSE /\ Finish(l, res = "err", bNotes[l], bf)
                               /\ UNCHANGED <<conn, nconn, fdconns, reg, count,
                                              pending, fdOpen, nAccepts>>
    /\ UNCHANGED <<cfg, spc, sidx, notes, pollClosed, tpc, tickErr, detOpen,
                   budget, nOpened, nClosed, nDetached, nWake, nWakeData,
                   bWakeData, early, late, staleDrop, last>>

\* A close path that hands every close back to the loop as an error.
ClosedErrAlways(r) == TRUE

\* What loopCloseConn and loopDetachConn return after the callback: errClosing
\* when Closed or Detached returned Shutdown, nil otherwise; the error that
\* closed the connection is handed to Closed and not returned.
ClosedErr(r) == r = "Shutdown"

\* loopCloseConn without its atomic.AddInt32(&l.count, -1).
loopCloseConnNoCount(l, c) ==
    /\ count' = count
    /\ fdconns' = [fdconns EXCEPT ![l][conn[c].fd] = Nil]
    /\ fdOpen' = fdOpen \ {conn[c].fd}
    /\ reg' = [reg EXCEPT ![l][conn[c].fd] = "none"]
    /\ nClosed' = [nClosed EXCEPT ![c] = @ + 1]

\* loopCloseConn, up to the Closed callback (the caller takes its result).
loopCloseConn(l, c) ==
    /\ count' = [count EXCEPT ![l] = @ - 1]
    /\ fdconns' = [fdconns EXCEPT ![l][conn[c].fd] = Nil]
    /\ fdOpen' = fdOpen \ {conn[c].fd}
    /\ reg' = [reg EXCEPT ![l][conn[c].fd] = "none"]
    /\ nClosed' = [nClosed EXCEPT ![c] = @ + 1]

\* loopDetachConn without its delete(l.fdconns, c.fd).
loopDetachConnKeep(l, c) ==
    IF ~cfg.detached
       THEN /\ loopCloseConn(l, c)
            /\ UNCHANGED <<nDetached, detOpen>>
       ELSE /\ reg' = [reg EXCEPT ![l][conn[c].fd] = "none"]
            /\ count' = [count EXCEPT ![l] = @ - 1]
            /\ fdconns' = fdconns
            /\ nDetached' = [nDetached EXCEPT ![c] = @ + 1]
            /\ detOpen' = detOpen \cup {c}
            /\ UNCHANGED <<fdOpen, nClosed>>

\* loopDetachConn, up to the Detached callback: without a Detached callback
\* it is loopCloseConn.
loopDetachConn(l, c) ==
    IF ~cfg.detached
       THEN /\ loopCloseConn(l, c)
            /\ UNCHANGED <<nDetached, detOpen>>
       ELSE /\ reg' = [reg EXCEPT ![l][conn[c].fd] = "none"]
            /\ count' = [count EXCEPT ![l] = @ - 1]
            /\ fdconns' = [fdconns EXCEPT ![l][conn[c].fd] = Nil]
            /\ nDetached' = [nDetached EXCEPT ![c] = @ + 1]
            /\ detOpen' = detOpen \cup {c}
            /\ UNCHANGED <<fdOpen, nClosed>>

\* loopOpened
LoopOpened(l, fd) ==
    \E c \in ConnIds :
      /\ Dispatch(l, fd, c)
      /\ Branch(c) = "opened"
      /\ \E out \in cfg.outs, action \in cfg.actions :
           LET o == IF Len(out) > 0 THEN out ELSE conn[c].out
           IN /\ conn' = [conn EXCEPT ![c].opened = TRUE, ![c].out = o,
                                      ![c].action = action]
              /\ reg' = RestoreRead(l, fd, o, action)
              /\ SetLast(c, "opened", out)
      /\ nOpened' = [nOpened EXCEPT ![c] = @ + 1]
      /\ Finish(l, FALSE, bNotes[l], bFds[l] \ {fd})
      /\ UNCHANGED <<cfg, spc, sidx, accepted, notes, fdconns, count,
                     pollClosed, tpc, tickErr, nconn, fdOpen, detOpen, pending,
                     budget, nClosed, nDetached, nAccepts, nWake, nWakeData,
                     bWakeData, early, late, staleDrop>>

\* loopWrite: syscall.Write gives EAGAIN, an error, or the n bytes it took.
LoopWrite(l, fd) ==
    \E c \in ConnIds :
      /\ Dispatch(l, fd, c)
      /\ Branch(c) = "write"
      /\ SetLast(c, "write", <<>>)
      /\ \E res \in {"eagain", "err", "ok"}, n \in 1..Len(conn[c].out) :
           CASE res = "eagain" ->
                  /\ Finish(l, FALSE, bNotes[l], bFds[l] \ {fd})
                  /\ UNCHANGED <<conn, reg, count, fdconns, fdOpen, nClosed>>
             [] res = "err" ->
                  /\ loopCloseConn(l, c)
                  /\ \E r \in CbResults :
                       Finish(l, ClosedErr(r), bNotes[l], bFds[l] \ {fd})
                  /\ UNCHANGED conn
             [] OTHER ->
                  LET o == IF n = Len(conn[c].out) THEN <<>>
                           ELSE SubSeq(conn[c].out, n + 1, Len(conn[c].out))
                  IN /\ conn' = [conn EXCEPT ![c].out = o]
                     /\ reg' = RestoreRead(l, fd, o, conn[c].action)
                     /\ Finish(l, FALSE, bNotes[l], bFds[l] \ {fd})
                     /\ UNCHANGED <<count, fdconns, fdOpen, nClosed>>
      /\ UNCHANGED <<cfg, spc, sidx, accepted, notes, pollClosed, tpc, tickErr,
                     nconn, detOpen, pending, budget, nOpened, nDetached,
                     nAccepts, nWake, nWakeData, bWakeData, early, late,
                     staleDrop>>

\* loopAction
LoopAction(l, fd) ==
    \E c \in ConnIds :
      /\ Dispatch(l, fd, c)
      /\ Branch(c) = "action"
      /\ SetLast(c, "action", <<>>)
      /\ CASE conn[c].action = "Close" ->
                /\ loopCloseConn(l, c)
                /\ \E r \in CbResults :
                     Finish(l, ClosedErr(r), bNotes[l], bFds[l] \ {fd})
                /\ UNCHANGED <<conn, nDetached, detOpen>>
           [] conn[c].action = "Shutdown" ->
                /\ Finish(l, TRUE, bNotes[l], bFds[l] \ {fd})
                /\ UNCHANGED <<conn, reg, count, fdconns, fdOpen, nClosed,
                               nDetached, detOpen>>
           [] conn[c].action = "Detach" ->
                /\ loopDetachConn(l, c)
                /\ \E r \in CbResults :
                     Finish(l, ClosedErr(r), bNotes[l], bFds[l] \ {fd})
                /\ UNCHANGED conn
           [] OTHER ->
                /\ conn' = [conn EXCEPT ![c].action = "None"]
                /\ reg' = RestoreRead(l, fd, conn[c].out, "None")
                /\ Finish(l, FALSE, bNotes[l], bFds[l] \ {fd})
                /\ UNCHANGED <<count, fdconns, fdOpen, nClosed, nDetached,
                               detOpen>>
      /\ UNCHANGED <<cfg, spc, sidx, accepted, notes, pollClosed, tpc, tickErr,
                     nconn, pending, budget, nOpened, nAccepts, nWake,
                     nWakeData, bWakeData, early, late, staleDrop>>

\* loopRead: syscall.Read gives EAGAIN, end of file or an error, or bytes,
\* which go to Data.
LoopRead(l, fd) ==
    \E c \in ConnIds :
      /\ Dispatch(l, fd, c)
      /\ Branch(c) = "read"
      /\ \E res \in {"eagain", "close", "data"} :
           CASE res = "eagain" ->
                  /\ Finish(l, FALSE, bNotes[l], bFds[l] \ {fd})
                  /\ SetLast(c, "read", <<>>)
                  /\ UNCHANGED <<conn, reg, count, fdconns, fdOpen, nClosed,
                                 early, late>>
             [] res = "close" ->
                  /\ loopCloseConn(l, c)
                  /\ \E r \in CbResults :
                       Finish(l, ClosedErr(r), bNotes[l], bFds[l] \ {fd})
                  /\ SetLast(c, "read", <<>>)
                  /\ UNCHANGED <<conn, early, late>>
             [] OTHER ->
                  /\ \E out \in cfg.outs, action \in cfg.actions :
                       LET o == IF Len(out) > 0 THEN out ELSE conn[c].out
                       IN /\ conn' = [conn EXCEPT ![c].action = action,
                                                  ![c].out = o]
                          /\ reg' = RestoreReadWrite(l, fd, o, action)
                          /\ SetLast(c, "read", out)
                  /\ DataHist(c)
                  /\ Finish(l, FALSE, bNotes[l], bFds[l] \ {fd})
                  /\ UNCHANGED <<count, fdconns, fdOpen, nClosed>>
      /\ UNCHANGED <<cfg, spc, sidx, accepted, notes, pollClosed, tpc, tickErr,
                     nconn, detOpen, pending, budget, nOpened, nDetached,
                     nAccepts, nWake, nWakeData, bWakeData, staleDrop>>

\* A guard that only asks whether the descriptor is in use.
WakeStaleByFd(l, c) == fdconns[l][conn[c].fd] = Nil

\* A guard with its comparison inverted.
WakeStaleInverted(l, c) == fdconns[l][conn[c].fd] = c

\* loopNote's guard against stale wakes: l.fdconns[v.fd] != v
WakeStale(l, c) == fdconns[l][conn[c].fd] # c

\* A loopWake that appends the returned bytes to the unwritten tail.
loopWakeAppend(l, c) ==
    /\ \E out \in cfg.outs, action \in cfg.actions :
         LET o == conn[c].out \o out
         IN /\ conn' = [conn EXCEPT ![c].action = action, ![c].out = o]
            /\ reg' = RestoreReadWrite(l, conn[c].fd, o, action)
            /\ SetLast(c, "wake", out)
    /\ nWakeData' = [nWakeData EXCEPT ![c] = @ + 1]
    /\ bWakeData' = [bWakeData EXCEPT ![c] = @ + 1]
    /\ DataHist(c)

\* loopWake, after the guard: Data(c, nil).
loopWake(l, c) ==
    /\ \E out \in cfg.outs, action \in cfg.actions :
         LET o == IF Len(out) > 0 THEN out ELSE conn[c].out
         IN /\ conn' = [conn EXCEPT ![c].action = action, ![c].out = o]
            /\ reg' = RestoreReadWrite(l, conn[c].fd, o, action)
            /\ SetLast(c, "wake", out)
    /\ nWakeData' = [nWakeData EXCEPT ![c] = @ + 1]
    /\ bWakeData' = [bWakeData EXCEPT ![c] = @ + 1]
    /\ DataHist(c)

\* loopNote, a *conn: a stale wake is ignored, any other goes to loopWake.
LoopNoteWake(l) ==
    /\ lpc[l] = "iter"
    /\ bNotes[l] # <<>>
    /\ Head(bNotes[l]).kind = "wake"
    /\ LET c == Head(bNotes[l]).c
       IN IF WakeStale(l, c)
             THEN /\ staleDrop' = IF fdconns[l][conn[c].fd] # Nil
                                     THEN staleDrop \cup {c} ELSE staleDrop
                  /\ UNCHANGED <<conn, reg, nWakeData, bWakeData, early, late,
                                 last>>
             ELSE /\ loopWake(l, c)
                  /\ UNCHANGED staleDrop
    /\ Finish(l, FALSE, Tail(bNotes[l]), bFds[l])
    /\ UNCHANGED <<cfg, spc, sidx, accepted, notes, fdconns, count, pollClosed,
                   tpc, tickErr, nconn, fdOpen, detOpen, pending, budget,
                   nOpened, nClosed, nDetached, nAccepts, nWake>>

\* ------------------------------------------------------------------- Next
\* The server thread.
ServerStep ==
    \/ ServerWait
    \/ ServerTrigger
    \/ ServerWgWait
    \/ ServerSweep

\* A loop thread that accepts connections, opens them and reads from them.
LoopStep(l) ==
    \/ LoopWait(l)
    \/ LoopExit(l)
    \/ \E fd \in Fds \cup {LnFd} : LoopAccept(l, fd)
    \/ \E fd \in Fds : LoopOpened(l, fd)
    \/ \E fd \in Fds : LoopRead(l, fd)

\* What a loop thread does besides when the callbacks return bytes and
\* actions and the application calls Wake.
LoopAppStep(l) ==
    \/ LoopNoteWake(l)
    \/ \E fd \in Fds : LoopWrite(l, fd)
    \/ \E fd \in Fds : LoopAction(l, fd)

\* The application's own threads.
AppStep ==
    \/ \E c \in ConnIds : Wake(c)
    \/ \E c \in ConnIds : DetachedClose(c)

\* The ticker goroutine and loop 0's side of it.
TickStep ==
    \/ TickerTrigger
    \/ \E l \in Loops : LoopNoteTick(l)
    \/ \E l \in Loops : TchSend(l)

\* Several loops and an application whose callbacks return no bytes and no
\* action and that never calls Wake.
NextAccept ==
    \/ ClientConnect
    \/ ServerStep
    \/ \E l \in Loops : LoopStep(l)
    \/ \E l \in Loops : LoopNoteClosing(l)

\* A single loop (the closing sentinel is posted only once that loop has
\* ended) and no ticker.
NextConn ==
    \/ ClientConnect
    \/ ServerStep
    \/ AppStep
    \/ \E l \in Loops : LoopStep(l)
    \/ \E l \in Loops : LoopAppStep(l)

\* The whole program.
Next ==
    \/ ClientConnect
    \/ ServerStep
    \/ AppStep
    \/ TickStep
    \/ \E l \in Loops : LoopStep(l)
    \/ \E l \in Loops : LoopAppStep(l)
    \/ \E l \in Loops : LoopNoteClosing(l)

\* What a reading application's callbacks return: no bytes, no action.
NoOut == {<<>>}
NoAction == {"None"}

\* The whole program: MaxLoops loops and the ticker, MaxConns connections.
Spec == Init /\ [][Next]_vars

\* One loop without a ticker, with or without a Detached callback, and enough
\* connections for a descriptor to be used again.
InitConn ==
    \E det \in BOOLEAN :
      InitWith(1, "Random", FALSE, det, OutChoices, Actions, ConnConns, ConnWakes)
SpecConn == InitConn /\ [][NextConn]_vars

\* Load balancing: MaxLoops loops and a reading application.
InitRR == InitWith(MaxLoops, "RoundRobin", FALSE, FALSE, NoOut, NoAction,
                   RRConns, 0)
SpecRR == InitRR /\ [][NextAccept]_vars

InitLC == InitWith(MaxLoops, "LeastConnections", FALSE, FALSE, NoOut, NoAction,
                   LCConns, 0)
SpecLC == InitLC /\ [][NextAccept]_vars

\* One loop and an application that never asks for a shutdown: the loop ends
\* only when Accept fails.
InitErr == InitWith(1, "Random", FALSE, TRUE, OutChoices,
                    Actions \ {"Shutdown"}, ConnConns, ConnWakes)
SpecErr == InitErr /\ [][NextConn]_vars

\* Load balancing in any of the three modes, each loop thread and the server
\* thread scheduled fairly.
InitBal ==
    \E b \in Balances :
      InitWith(MaxLoops, b, FALSE, FALSE, NoOut, NoAction, BalConns, 0)
SpecBal ==
    /\ InitBal /\ [][NextAccept]_vars
    /\ WF_vars(ServerStep)
    /\ \A l \in AllLoops : WF_vars(LoopStep(l) \/ LoopNoteClosing(l))

\* One loop, with the history of the branches its switch takes.
InitPath == InitCfg(1, "Random", FALSE, TRUE, OutChoices, Actions, PathConns,
                    PathWakes, TRUE)
SpecPath == InitPath /\ [][NextConn]_vars

\* Every thread that is able to take a step eventually takes one.
Fairness ==
    /\ WF_vars(ServerStep)
    /\ WF_vars(TickerTrigger)
    /\ \A l \in AllLoops :
         WF_vars(LoopStep(l) \/ LoopAppStep(l) \/ LoopNoteClosing(l)
                    \/ LoopNoteTick(l) \/ TchSend(l))

FairSpec == Spec /\ Fairness

\* ----------------------------------------------------------------- claims
\* The wake notes for c that loop l has queued or dequeued and not yet
\* dispatched.
PendingWakes(c) ==
    LET q == notes[conn[c].loop] \o bNotes[conn[c].loop]
    IN Cardinality({i \in 1..Len(q) : q[i] = WakeNote(c)})

\* The number of entries of l.fdconns.
LenFdconns(l) == Cardinality({fd \in Fds : fdconns[l][fd] # Nil})

\* C1: after every dispatch step for a stored connection, its descriptor is
\* registered for read only iff out is empty and action is None, and for
\* read+write otherwise.
C1_EventsInvariant ==
    \A l \in Loops, fd \in Fds :
      LET c == fdconns[l][fd]
      IN c # Nil /\ conn[c].opened =>
           reg[l][fd] = IF Len(conn[c].out) = 0 /\ conn[c].action = "None"
                           THEN "r" ELSE "rw"

\* C2: for every accepted connection Opened fires exactly once, before any
\* Data and before Closed.
C2_OpenedFirst ==
    \A c \in ConnIds :
      /\ nOpened[c] <= 1
      /\ c \notin early
      /\ nClosed[c] > 0 => nOpened[c] = 1

C4_StaleWakeDropped ==
    /\ late = {}
    /\ early = {}
    /\ \A c \in ConnIds : nWakeData[c] <= nWake[c]

\* C4's case: a stale wake was dropped while another stored connection held
\* its descriptor.
C4_Witness == staleDrop # {}

\* C5: loop.count equals the number of entries of loop.fdconns between any
\* two steps and after the sweep.
C5_CountIsLen == \A l \in Loops : count[l] = LenFdconns(l)

\* C5's case: the shutdown has completed, and a loop that accepted a
\* connection holds none.
C5_Witness ==
    /\ spc = "done"
    /\ \E l \in Loops : nAccepts[l] > 0 /\ count[l] = 0

\* C6: in RoundRobin mode, after M accepts every loop has accepted between
\* floor(M/N) and ceil(M/N) connections (stated for the states in which
\* every loop is still running).
C6_RoundRobinEven ==
    cfg.balance = "RoundRobin" /\ (\A l \in Loops : lpc[l] \in {"wait", "iter"}) =>
      \A l \in Loops :
        /\ nconn \div cfg.numLoops <= nAccepts[l]
        /\ nAccepts[l] <= (nconn + cfg.numLoops - 1) \div cfg.numLoops

\* The largest gap between two loops' counts.
CountGap == Max({count[l] - count[k] : l, k \in Loops})

\* C7, as claimed: in LeastConnections mode, whenever a loop accepts a
\* connection the gap between the largest and the smallest count is at most 1.
C7_GapAtMostOne ==
    [][\A l \in Loops : nAccepts'[l] > nAccepts[l] => CountGap <= 1]_vars

\* C7, amended: in LeastConnections mode a loop accepts a connection only
\* when no other loop's count is strictly smaller than its own.
C7_AcceptorIsLeast ==
    [][\A l \in Loops : nAccepts'[l] > nAccepts[l] =>
          \A k \in Loops : count[l] <= count[k]]_vars

\* C7's case: loop k accepted connection c while it held no connection and
\* loop l held two: c took the descriptor of a connection that had closed, and
\* the two connections l holds are older than c.
C7_Witness ==
    /\ cfg.balance = "LeastConnections"
    /\ \E l, k \in Loops, c, d \in 1..nconn :
         /\ l # k
         /\ Stored(k) = {c}
         /\ nAccepts[k] = 2
         /\ nClosed[d] = 1 /\ conn[d].loop = k /\ conn[d].fd = conn[c].fd
         /\ Cardinality(Stored(l)) = 2
         /\ \A e \in Stored(l) : e < c

\* C8: a Wake posted for a stored connection leads to a Data(conn, nil) call
\* for it, unless the connection leaves its loop first.
C8_WakeAnswered ==
    \A c \in ConnIds, k \in 0..MaxWakes :
      (IsStored(c) /\ PendingWakes(c) > 0 /\ nWakeData[c] = k)
        ~> (nWakeData[c] > k \/ ~IsStored(c))

\* C9, as claimed: the wakes posted for one connection before the loop's Wait
\* returns bring exactly one Data(conn, nil) call.
C9_WakesCoalesce == \A c \in ConnIds : bWakeData[c] <= 1

\* C9, amended: no wake is merged with another or lost: while a connection
\* is stored and its loop runs, every Wake posted for it has brought its own
\* Data(conn, nil) call or is still a note of the loop's poller.
C9_EveryWakeAnswered ==
    \A c \in 1..nconn :
      IsStored(c) /\ lpc[conn[c].loop] \in {"wait", "iter", "tchsend"} =>
        nWake[c] = nWakeData[c] + PendingWakes(c)

\* C9's case: two wakes for one connection came out of one Wait and Data(conn,
\* nil) fired for each.
C9_Witness == \E c \in ConnIds : bWakeData[c] = 2 /\ nWake[c] = 2

\* C10: once a loop has ended, the shutdown completes: the server wakes,
\* every loop ends and the sweep runs.
C10_ShutdownCompletes ==
    (\E l \in AllLoops : lpc[l] = "done")
      ~> (spc = "done" /\ \A l \in Loops : lpc[l] = "done")

\* C10, as a final result: once every loop has ended, the server has completed
\* the shutdown or is able to take its next step towards it.
C10_ServerNotStranded ==
    (\A l \in Loops : lpc[l] = "done") => (spc = "done" \/ ENABLED ServerStep)

\* A step in which loop l closes connection c on an error or an end of file
\* of its read or write: c is opened and is due for a write or for a read.
IoErrorClose(l, c) ==
    /\ lpc[l] = "iter"
    /\ c <= nconn
    /\ fdconns[l][conn[c].fd] = c
    /\ conn[c].opened
    /\ Len(conn[c].out) > 0 \/ conn[c].action = "None"
    /\ nClosed'[c] > nClosed[c]

\* A step in which loop l ends on the closing sentinel or on a failure of
\* Accept on the listener, with no connection touched.
EndsOnSentinelOrAccept(l) ==
    /\ conn' = conn /\ fdconns' = fdconns /\ nClosed' = nClosed
    /\ \/ bNotes[l] # <<>> /\ Head(bNotes[l]) = ClosingNote
       \/ bNotes[l] = <<>> /\ LnFd \in bFds[l] /\ pending > 0

C13_TickerNotStranded == lpc[0] = "done" => tpc # "recv"

\* Every loop is running: none has ended or is about to.
AllRunning == \A l \in Loops : lpc[l] \in {"wait", "iter"}

\* C14: in each mode, with every loop running, a connection pending on the
\* listener is eventually accepted by some loop, unless a loop ends first
\* (which, with this application, only a failing Accept brings about).
C14_PendingAccepted ==
    \A k \in 0..MaxConnIds :
      (pending > 0 /\ nconn = k /\ AllRunning) ~> (nconn > k \/ ~AllRunning)

\* C14's case: in RoundRobin mode a loop took its turn on a stale readiness
\* event and found nothing to accept, and every connection was accepted all
\* the same, the loops still running.
C14_Witness ==
    /\ cfg.balance = "RoundRobin"
    /\ AllRunning
    /\ nconn = BalConns /\ pending = 0
    /\ accepted > nconn

\* C15: in RoundRobin mode server.accepted equals the number of connections
\* accepted so far: it goes up by one with every successful Accept and not
\* at all when Accept returns EAGAIN or an error (stated for the states in
\* which every loop is still running, so that no Accept has failed).
C15_AcceptedCountsAccepts ==
    cfg.balance = "RoundRobin" /\ AllRunning => accepted = nconn

\* C16: the switch takes the first case that matches, in the order Open,
\* Write, Action, Read: Opened runs on a conn not yet opened and the others
\* on an opened one; a write runs when out is non-empty; an action is applied
\* only when out is empty; the read path runs only when out is empty and no
\* action is pending.
C16_DispatchPriority ==
    /\ last.path = "opened" => ~last.opened
    /\ last.path \in {"write", "action", "read"} => last.opened
    /\ last.path = "write" => last.prev # <<>>
    /\ last.path = "action" => last.prev = <<>> /\ last.act # "None"
    /\ last.path = "read" => last.prev = <<>> /\ last.act = "None"

\* C16's case: the switch came to a conn with bytes to write and an action
\* pending: the write ran, and the conn is still stored with its action.
C16_Witness ==
    /\ last.path = "write" /\ last.act \in {"Close", "Shutdown", "Detach"}
    /\ last.c # Nil /\ IsStored(last.c)
    /\ conn[last.c].action = last.act

\* t is what is left of s once some of its first bytes are taken.
IsSuffix(t, s) ==
    /\ Len(t) <= Len(s)
    /\ t = SubSeq(s, Len(s) - Len(t) + 1, Len(s))

\* C17: when a Data callback returns bytes they become out, whatever tail a
\* partial write had left there, and when it returns none out is kept; a
\* write takes bytes from the front of out only, so a tail that was replaced
\* is never sent and a tail that was kept is what the next write sends.
C17_DataReplacesOut ==
    /\ last.path \in {"wake", "read"} =>
         conn[last.c].out = IF last.ret # <<>> THEN last.ret ELSE last.prev
    /\ last.path = "write" => IsSuffix(conn[last.c].out, last.prev)

\* C17's case: a write had taken a part of out, and a Wake's Data returned
\* bytes that replaced the tail.
C17_Witness ==
    /\ last.path = "wake"
    /\ 0 < Len(last.prev) /\ Len(last.prev) < MaxOut
    /\ last.ret = Payload
    /\ conn[last.c].out = Payload

\* C17's other case: a write had taken a part of out, a Wake's Data returned
\* no bytes and the tail was kept.
C17_WitnessKept ==
    /\ last.path = "wake"
    /\ 0 < Len(last.prev) /\ Len(last.prev) < MaxOut
    /\ last.ret = <<>>
    /\ conn[last.c].out = last.prev

\* C18: a loop's fdconns changes, and Closed or Detached fires for one of its
\* conns, only in a step of the loop's own thread while the loop runs, or in
\* the server's sweep of that loop once the loop has ended; the sweep begins
\* only when every loop has ended.  A Wake leaves fdconns alone.
C18_FdconnsOneThread ==
    [][/\ \A l \in Loops :
            \/ /\ fdconns'[l] = fdconns[l]
               /\ \A c \in ConnIds :
                    conn[c].loop = l =>
                      nClosed'[c] = nClosed[c] /\ nDetached'[c] = nDetached[c]
            \/ lpc[l] = "iter" /\ spc \notin {"sweep", "done"}
            \/ lpc[l] = "done" /\ spc = "sweep" /\ sidx = l
       /\ spc' = "sweep" => \A l \in Loops : lpc'[l] = "done"
       /\ nWake' # nWake => fdconns' = fdconns]_vars

\* C18's case: the shutdown has completed and the sweep has closed a conn
\* that its loop had accepted and never opened.
C18_Witness ==
    /\ spc = "done"
    /\ \E c \in 1..nconn : ~conn[c].opened /\ nClosed[c] = 1

\* C19: an action that Opened or Data returned for a connection stays its
\* pending action until the action path applies it or the connection is
\* closed: no step replaces a pending Close, Shutdown or Detach by another
\* action or by None.
C19_ActionKept ==
    [][\A c \in ConnIds :
          c <= nconn /\ conn[c].action # "None" =>
            conn'[c].action = conn[c].action]_vars

\* The timer notes loop l has queued or dequeued and not yet handled.
TickNotes(l) ==
    LET q == notes[l] \o bNotes[l]
    IN Cardinality({i \in 1..Len(q) : q[i] = TickNote})

\* C20: at most one timer note is outstanding (queued, or handled with its
\* delay not yet sent), only loop 0 ever has one, and whenever loop 0 is
\* sending the delay on s.tch the ticker is receiving, also when Tick has
\* returned Shutdown.
C20_TickHandshake ==
    /\ \A l \in Loops : l # 0 => TickNotes(l) = 0 /\ lpc[l] # "tchsend"
    /\ TickNotes(0) + (IF lpc[0] = "tchsend" THEN 1 ELSE 0) <= 1
    /\ TickNotes(0) > 0 /\ lpc[0] # "done" => tpc = "recv"
    /\ lpc[0] = "tchsend" => tpc = "recv"
    /\ tickErr => lpc[0] = "tchsend"

\* C20's case: Tick has returned Shutdown and loop 0 is sending the delay to
\* the ticker, which is receiving.
C20_Witness == lpc[0] = "tchsend" /\ tickErr /\ tpc = "recv"

====
